---- MODULE Spec2Model ----
(***************************************************************************)
(* Model of the minecraft-genie ingestion pipeline:                        *)
(*   src/data/web_scraping.py  (page extraction, section filter, batch)    *)
(*   src/data/embedder.py      (text normalizer, chunk filter, index run)  *)
(*                                                                         *)
(* Text is a sequence of characters.  A character is a one-character       *)
(* string; characters outside ASCII are written by code point ("U+200C").  *)
(* The string literals of src/data/embedder.py lines 50-60 are kept as the *)
(* file holds them: " U+201A U+00C5 U+00D1 " (three characters) for the    *)
(* fraction slash and "U+201A U+00C4 U+00E5" for the edition marker.       *)
(***************************************************************************)
EXTENDS Integers, Sequences, FiniteSets, TLC

VARIABLES
    pc,             \* position of the running script
    url,            \* _scrape_page: the url argument
    soup,           \* _scrape_page: the parsed document (nodes in document order)
    content_parts,  \* _scrape_page: the fragments appended so far
    pages,          \* _scrape_multiple_pages: the (label, url) items, in dict order
    web,            \* the remote site: url -> the outcome of requests.get and the document
    item,           \* _scrape_multiple_pages: the loop's position in pages
    all_content,    \* _scrape_multiple_pages: the (label, content) entries, in dict order
    lore_json,      \* data/lore.json: the records _save_to_json wrote, as JSON text
    raw,            \* _clean_scraped_text: the text argument
    cleaned,        \* _clean_scraped_text: the returned text
    text,           \* normalize_text: the text argument
    once,           \* normalize_text(text)
    twice,          \* normalize_text(normalize_text(text))
    lore_data,      \* embedder main block: the loaded entries
    chunks_of,      \* SentenceSplitter.split_text: content -> candidate chunks
    docs,           \* split_and_prepare_documents: the Documents built
    run,            \* embedder main block: "running", "complete" or the exception raised
    hit_urls        \* retriever_eval: what _extract_url_from_hit returned, hit by hit

vars == <<pc, url, soup, content_parts, pages, web, item, all_content, lore_json, raw, cleaned,
          text, once, twice, lore_data, chunks_of, docs, run, hit_urls>>

----------------------------------------------------------------------------
(* Strings                                                                 *)

Drop(s, n) == SubSeq(s, n + 1, Len(s))

Take(s, n) == SubSeq(s, 1, n)

\* s[i..] starts with p (Python: s.startswith(p, i-1))
StartsWithAt(s, p, i) ==
    /\ i + Len(p) - 1 <= Len(s)
    /\ \A k \in 1..Len(p) : s[i + k - 1] = p[k]

StartsWith(s, p) == StartsWithAt(s, p, 1)

\* Python: p in s
Contains(s, p) == \E i \in 1..(Len(s) + 1) : StartsWithAt(s, p, i)

\* Python: s.count(p) for a non-empty p without self-overlap
Count(s, p) == Cardinality({i \in 1..Len(s) : StartsWithAt(s, p, i)})

Min(S) == CHOOSE x \in S : \A y \in S : x <= y

Max(S) == CHOOSE x \in S : \A y \in S : x >= y

\* Python: s.replace(old, new), leftmost non-overlapping occurrences, from
\* position i of s on
RECURSIVE StrReplaceFrom(_, _, _, _)
StrReplaceFrom(s, i, old, new) ==
    LET found == {m \in i..Len(s) : StartsWithAt(s, old, m)}
    IN  IF found = {} THEN SubSeq(s, i, Len(s))
        ELSE SubSeq(s, i, Min(found) - 1) \o new
                 \o StrReplaceFrom(s, Min(found) + Len(old), old, new)

StrReplace(s, old, new) == StrReplaceFrom(s, 1, old, new)

\* the characters of s at the positions of S, in order
InOrderOf(s, S) ==
    LET rank(i) == Cardinality({j \in S : j <= i})
    IN  [k \in 1..Cardinality(S) |-> s[CHOOSE i \in S : rank(i) = k]]

\* Python: sep.join(parts)
RECURSIVE Join(_, _)
Join(sep, parts) ==
    IF parts = <<>> THEN <<>>
    ELSE IF Len(parts) = 1 THEN parts[1]
    ELSE parts[1] \o sep \o Join(sep, Tail(parts))

\* concatenation of a sequence of strings
Concat(parts) == Join(<<>>, parts)

Whitespace == {" ", "\n", "\t"}

\* Python: s.lstrip()
LStrip(s) ==
    LET visible == {i \in 1..Len(s) : s[i] \notin Whitespace}
    IN  IF visible = {} THEN <<>> ELSE SubSeq(s, Min(visible), Len(s))

\* Python: s.rstrip()
RStrip(s) ==
    LET visible == {i \in 1..Len(s) : s[i] \notin Whitespace}
    IN  IF visible = {} THEN <<>> ELSE SubSeq(s, 1, Max(visible))

\* Python: s.strip()
Strip(s) == LStrip(RStrip(s))

Upper == <<"A", "B", "C", "D", "E", "F", "G", "H", "I", "J", "K", "L", "M",
           "N", "O", "P", "Q", "R", "S", "T", "U", "V", "W", "X", "Y", "Z">>

Lower == <<"a", "b", "c", "d", "e", "f", "g", "h", "i", "j", "k", "l", "m",
           "n", "o", "p", "q", "r", "s", "t", "u", "v", "w", "x", "y", "z">>

LowerOf == [c \in {Upper[k] : k \in 1..Len(Upper)} |->
               Lower[CHOOSE k \in 1..Len(Upper) : Upper[k] = c]]

UpperOf == [c \in {Lower[k] : k \in 1..Len(Lower)} |->
               Upper[CHOOSE k \in 1..Len(Lower) : Lower[k] = c]]

IsUpper(c) == c \in DOMAIN LowerOf

IsLower(c) == c \in DOMAIN UpperOf

\* case folding of one character, as re.IGNORECASE compares
Fold(c) == IF IsUpper(c) THEN LowerOf[c] ELSE c

\* Python: c.upper() on one character
ToUpper(c) == IF IsLower(c) THEN UpperOf[c] ELSE c

\* p matches s at i under re.IGNORECASE
MatchesAtIgnoreCase(s, p, i) ==
    /\ i + Len(p) - 1 <= Len(s)
    /\ \A k \in 1..Len(p) : Fold(s[i + k - 1]) = Fold(p[k])

\* all strings made of at most n pieces of P, concatenated
RECURSIVE PiecesUpTo(_, _)
PiecesUpTo(P, n) ==
    IF n = 0 THEN {<<>>}
    ELSE LET shorter == PiecesUpTo(P, n - 1)
         IN  shorter \cup {s \o p : s \in shorter, p \in P}

----------------------------------------------------------------------------
(* src/data/embedder.py: normalize_text                                    *)

FRACTION_SLASH == <<"U+201A", "U+00C5", "U+00D1">>

SPACED_FRACTION_SLASH == <<" ">> \o FRACTION_SLASH \o <<" ">>

ZWNJ == <<"U+200C">>

ZWSP == <<"U+200B">>

EDITION_MARKER == <<"U+201A", "U+00C4", "U+00E5">>

BE_ONLY == <<"[", "B", "E", " ", "o", "n", "l", "y", "]">>

JE_ONLY == <<"[", "J", "E", " ", "o", "n", "l", "y", "]">>

\* re.sub(r"<marker>\[(BE|JE) only\]", r" [\1 only]", s), from position i of s on
RECURSIVE SubEditionMarkerFrom(_, _)
SubEditionMarkerFrom(s, i) ==
    LET found == {m \in i..Len(s) : \/ StartsWithAt(s, EDITION_MARKER \o BE_ONLY, m)
                                   \/ StartsWithAt(s, EDITION_MARKER \o JE_ONLY, m)}
        at == Min(found)
        tag == IF StartsWithAt(s, EDITION_MARKER \o BE_ONLY, at) THEN BE_ONLY ELSE JE_ONLY
    IN  IF found = {} THEN SubSeq(s, i, Len(s))
        ELSE SubSeq(s, i, at - 1) \o <<" ">> \o tag
                 \o SubEditionMarkerFrom(s, at + Len(EDITION_MARKER \o tag))

SubEditionMarker(s) == SubEditionMarkerFrom(s, 1)

normalize_text(t) ==
    LET t1 == StrReplace(t, SPACED_FRACTION_SLASH, <<"/">>)
        t2 == StrReplace(t1, FRACTION_SLASH, <<"/">>)
        t3 == StrReplace(t2, ZWNJ, <<>>)
        t4 == StrReplace(t3, ZWSP, <<>>)
    IN  IF Contains(t4, EDITION_MARKER \o BE_ONLY) \/ Contains(t4, EDITION_MARKER \o JE_ONLY)
        THEN SubEditionMarker(t4)
        ELSE t4

----------------------------------------------------------------------------
(* src/data/web_scraping.py: _clean_scraped_text                           *)

H2_PREFIX == <<"H", "2", ":", " ">>

H3_PREFIX == <<"H", "3", ":", " ">>

CONTENTS == <<"C", "o", "n", "t", "e", "n", "t", "s">>

unwanted_h2_sections ==
    <<<<"D", "a", "t", "a", " ", "v", "a", "l", "u", "e", "s">>,
      <<"S", "o", "u", "n", "d", "s">>,
      <<"V", "i", "d", "e", "o">>,
      <<"H", "i", "s", "t", "o", "r", "y">>,
      <<"I", "s", "s", "u", "e", "s">>,
      <<"G", "a", "l", "l", "e", "r", "y">>,
      <<"S", "e", "e", " ", "a", "l", "s", "o">>,
      <<"S", "c", "r", "e", "e", "n", "s", "h", "o", "t", "s">>,
      <<"R", "e", "f", "e", "r", "e", "n", "c", "e", "s">>,
      <<"E", "x", "t", "e", "r", "n", "a", "l", " ", "l", "i", "n", "k", "s">>,
      <<"N", "a", "v", "i", "g", "a", "t", "i", "o", "n">>,
      <<"C", "h", "a", "n", "g", "e", "d", " ", "r", "e", "c", "i", "p", "e", "s">>,
      <<"C", "o", "m", "p", "l", "e", "t", "e", " ", "r", "e", "c", "i", "p", "e", " ", "l", "i", "s", "t">>>>

unwanted_h3_sections ==
    <<<<"U", "n", "u", "s", "e", "d", " ", "m", "o", "b", "s">>,
      <<"E", "d", "u", "c", "a", "t", "i", "o", "n", " ", "m", "o", "b", "s">>,
      <<"R", "e", "m", "o", "v", "e", "d", " ", "m", "o", "b", "s">>,
      <<"J", "o", "k", "e", " ", "m", "o", "b", "s">>,
      <<"U", "n", "i", "m", "p", "l", "e", "m", "e", "n", "t", "e", "d", " ", "m", "o", "b", "s">>,
      <<"M", "e", "n", "t", "i", "o", "n", "e", "d", " ", "m", "o", "b", "s">>,
      <<"E", "d", "u", "c", "a", "t", "i", "o", "n", " ", "b", "l", "o", "c", "k", "s">>,
      <<"R", "e", "m", "o", "v", "e", "d", " ", "b", "l", "o", "c", "k", "s">>,
      <<"J", "o", "k", "e", " ", "b", "l", "o", "c", "k", "s">>>>

FOOTNOTE_GLYPH == <<"U+2191">>

CRAFTING_BANNER ==
    <<"B", "a", "s", "i", "c", "B", "l", "o", "c", "k", "s", "T", "o", "o", "l", "s", "D", "e", "f", "e", "n", "c", "e", "M", "e", "c", "h", "a", "n", "i", "s", "m", "F", "o", "o", "d", "O", "t", "h", "e", "r", "D", "y", "e", "W", "o", "o", "l", "B", "r", "e", "w", "i", "n", "g">>

IMAGE_COLUMN == <<" ", "|", " ", "I", "m", "a", "g", "e">>

BACK_TO_TOP == <<"[", "B", "a", "c", "k", " ", "t", "o", " ", "t", "o", "p", "]">>

\* re.sub(rf"{header}.*?(?=stop1|stop2|\Z)", "", s, flags=re.DOTALL | re.IGNORECASE):
\* each match runs from the header to the first later position where a stop
\* matches, or to the end of s; the scan goes on from there
RECURSIVE SubSectionFrom(_, _, _, _)
SubSectionFrom(s, i, header, stops) ==
    LET starts == {m \in i..Len(s) : MatchesAtIgnoreCase(s, header, m)}
    IN  IF starts = {} THEN SubSeq(s, i, Len(s))
        ELSE LET start == Min(starts)
                 after == start + Len(header)
                 ends  == {j \in after..Len(s) :
                              \E stop \in stops : MatchesAtIgnoreCase(s, stop, j)}
                 end   == IF ends = {} THEN Len(s) + 1 ELSE Min(ends)
             IN  SubSeq(s, i, start - 1) \o SubSectionFrom(s, end, header, stops)

SubSection(s, header, stops) == SubSectionFrom(s, 1, header, stops)

\* the loop "for section in sections: cleaned_text = re.sub(...)"
RECURSIVE SubSections(_, _, _, _)
SubSections(s, prefix, sections, stops) ==
    IF sections = <<>> THEN s
    ELSE LET cleaned_text == SubSection(s, prefix \o Head(sections), stops)
         IN  IF cleaned_text = <<>> THEN cleaned_text
             ELSE SubSections(cleaned_text, prefix, Tail(sections), stops)

RemoveContents(s) == SubSection(s, H2_PREFIX \o CONTENTS, {H2_PREFIX})

\* the H2 patterns without their lookahead: each match runs to the end of the text
RemoveUnwantedH2_ToEnd(s) == SubSections(s, H2_PREFIX, unwanted_h2_sections, {})

RemoveUnwantedH2(s) == SubSections(s, H2_PREFIX, unwanted_h2_sections, {H2_PREFIX})

\* the H3 patterns with the next H3 header as their only stop
RemoveUnwantedH3_ToNextH3(s) == SubSections(s, H3_PREFIX, unwanted_h3_sections, {H3_PREFIX})

RemoveUnwantedH3(s) ==
    SubSections(s, H3_PREFIX, unwanted_h3_sections, {H3_PREFIX, H2_PREFIX})

\* a lookahead that takes an uppercase letter only
FootnoteLookahead_uppercase_only(c) == IsUpper(c)

\* the lookahead (?=[A-Z]|\s|[^a-zA-Z]) on the character c
FootnoteLookahead(c) ==
    IsUpper(c) \/ c \in Whitespace \/ ~(IsUpper(c) \/ IsLower(c))

\* the lengths of the runs of lowercase letters after the glyph at position g
\* whose next character passes the lookahead
FootnoteRuns(s, g) ==
    {k \in 1..(Len(s) - g) :
        /\ \A i \in (g + 1)..(g + k) : IsLower(s[i])
        /\ g + k + 1 <= Len(s)
        /\ FootnoteLookahead(s[g + k + 1])}

\* re.sub(r"<glyph>[a-z]+(?=[A-Z]|\s|[^a-zA-Z])", "<glyph>", s), from position i
\* of s on: at each glyph the longest such run is dropped
RECURSIVE SubFootnoteFrom(_, _)
SubFootnoteFrom(s, i) ==
    LET found == {g \in i..Len(s) :
                     StartsWithAt(s, FOOTNOTE_GLYPH, g) /\ FootnoteRuns(s, g) # {}}
        at == Min(found)
    IN  IF found = {} THEN SubSeq(s, i, Len(s))
        ELSE SubSeq(s, i, at) \o SubFootnoteFrom(s, at + Max(FootnoteRuns(s, at)) + 1)

SubFootnote(s) == SubFootnoteFrom(s, 1)

RemoveCraftingBanner(s) ==
    IF Contains(s, CRAFTING_BANNER)
    THEN StrReplace(StrReplace(StrReplace(s, CRAFTING_BANNER, <<>>), IMAGE_COLUMN, <<>>),
                    BACK_TO_TOP, <<>>)
    ELSE s

\* the steps of _clean_scraped_text after the H2 sections are removed
FinishClean(s) == Strip(RemoveCraftingBanner(SubFootnote(RemoveUnwantedH3(s))))

_clean_scraped_text(s) == FinishClean(RemoveUnwantedH2(RemoveContents(s)))

----------------------------------------------------------------------------
(* src/data/web_scraping.py: WIKI_PAGES, in dict order                     *)

WIKI_PAGES ==
    <<[label |-> <<"t", "r", "a", "d", "i", "n", "g">>,
       url |-> <<"h", "t", "t", "p", "s", ":", "/", "/", "m", "i", "n", "e", "c", "r", "a", "f", "t", ".", "w", "i", "k", "i", "/", "w", "/", "T", "r", "a", "d", "i", "n", "g">>],
      [label |-> <<"b", "r", "e", "w", "i", "n", "g">>,
       url |-> <<"h", "t", "t", "p", "s", ":", "/", "/", "m", "i", "n", "e", "c", "r", "a", "f", "t", ".", "w", "i", "k", "i", "/", "w", "/", "B", "r", "e", "w", "i", "n", "g">>],
      [label |-> <<"e", "n", "c", "h", "a", "n", "t", "i", "n", "g">>,
       url |-> <<"h", "t", "t", "p", "s", ":", "/", "/", "m", "i", "n", "e", "c", "r", "a", "f", "t", ".", "w", "i", "k", "i", "/", "w", "/", "E", "n", "c", "h", "a", "n", "t", "i", "n", "g">>],
      [label |-> <<"m", "o", "b", "s">>,
       url |-> <<"h", "t", "t", "p", "s", ":", "/", "/", "m", "i", "n", "e", "c", "r", "a", "f", "t", ".", "w", "i", "k", "i", "/", "w", "/", "M", "o", "b">>],
      [label |-> <<"b", "l", "o", "c", "k", "s">>,
       url |-> <<"h", "t", "t", "p", "s", ":", "/", "/", "m", "i", "n", "e", "c", "r", "a", "f", "t", ".", "w", "i", "k", "i", "/", "w", "/", "B", "l", "o", "c", "k">>],
      [label |-> <<"i", "t", "e", "m", "s">>,
       url |-> <<"h", "t", "t", "p", "s", ":", "/", "/", "m", "i", "n", "e", "c", "r", "a", "f", "t", ".", "w", "i", "k", "i", "/", "w", "/", "I", "t", "e", "m">>],
      [label |-> <<"c", "r", "a", "f", "t", "i", "n", "g", " ", "i", "n", "f", "o", "r", "m", "a", "t", "i", "o", "n">>,
       url |-> <<"h", "t", "t", "p", "s", ":", "/", "/", "m", "i", "n", "e", "c", "r", "a", "f", "t", ".", "w", "i", "k", "i", "/", "w", "/", "C", "r", "a", "f", "t", "i", "n", "g">>],
      [label |-> <<"c", "r", "a", "f", "t", "i", "n", "g", " ", "r", "e", "c", "i", "p", "e", "s">>,
       url |-> <<"h", "t", "t", "p", "s", ":", "/", "/", "w", "w", "w", ".", "m", "i", "n", "e", "c", "r", "a", "f", "t", "c", "r", "a", "f", "t", "i", "n", "g", ".", "i", "n", "f", "o">>],
      [label |-> <<"s", "m", "e", "l", "t", "i", "n", "g">>,
       url |-> <<"h", "t", "t", "p", "s", ":", "/", "/", "m", "i", "n", "e", "c", "r", "a", "f", "t", ".", "w", "i", "k", "i", "/", "w", "/", "S", "m", "e", "l", "t", "i", "n", "g">>],
      [label |-> <<"t", "u", "t", "o", "r", "i", "a", "l", "s">>,
       url |-> <<"h", "t", "t", "p", "s", ":", "/", "/", "m", "i", "n", "e", "c", "r", "a", "f", "t", ".", "w", "i", "k", "i", "/", "w", "/", "T", "u", "t", "o", "r", "i", "a", "l", "s">>],
      [label |-> <<"r", "e", "d", "s", "t", "o", "n", "e">>,
       url |-> <<"h", "t", "t", "p", "s", ":", "/", "/", "m", "i", "n", "e", "c", "r", "a", "f", "t", ".", "w", "i", "k", "i", "/", "w", "/", "R", "e", "d", "s", "t", "o", "n", "e", "_", "c", "i", "r", "c", "u", "i", "t", "s">>]>>

PageUrl(label) == WIKI_PAGES[CHOOSE i \in 1..Len(WIKI_PAGES) : WIKI_PAGES[i].label = label].url

\* Python: s.capitalize(): first character upper-cased, the rest lower-cased
Capitalize(s) ==
    [i \in 1..Len(s) |-> IF i = 1 THEN ToUpper(s[i]) ELSE Fold(s[i])]

----------------------------------------------------------------------------
(* src/data/embedder.py: chunk filter, document building, index run        *)

REDUNDANT_LENGTH == 30

\* the filter without the strip() of line 73
filter_redundant_text_untrimmed(t) == Len(t) > REDUNDANT_LENGTH

filter_redundant_text(t) == Len(Strip(t)) > REDUNDANT_LENGTH

TITLE_LABEL == <<"T", "i", "t", "l", "e", ":", " ">>

URL_LABEL == <<"\n", "U", "R", "L", ":", " ">>

SOURCE_LABEL == <<"\n", "\n", "S", "o", "u", "r", "c", "e", ":", " ">>

\* the Document built for one surviving chunk of an entry
Document(entry, chunk) ==
    [text |-> TITLE_LABEL \o entry.title \o URL_LABEL \o entry.url \o <<"\n", "\n">>
                \o chunk \o SOURCE_LABEL \o entry.url,
     metadata |-> [source |-> entry.title, url |-> entry.url, chunk_size |-> Len(chunk)]]

\* the body of the loop "for entry in lore_data" for the entries from i on;
\* split[i] is what splitter.split_text returns for
\* normalize_text(entry["content"])
RECURSIVE PrepareFrom(_, _, _)
PrepareFrom(entries, split, i) ==
    IF i > Len(entries) THEN <<>>
    ELSE LET filtered_chunks == SelectSeq(split[i], filter_redundant_text)
         IN  [k \in 1..Len(filtered_chunks) |-> Document(entries[i], filtered_chunks[k])]
                 \o PrepareFrom(entries, split, i + 1)

split_and_prepare_documents(entries, split) == PrepareFrom(entries, split, 1)

\* build_vector_index after the index is persisted: the statistics lines;
\* min() and max() of an empty list raise ValueError
build_vector_index(documents) ==
    LET chunk_sizes == [k \in 1..Len(documents) |-> documents[k].metadata.chunk_size]
    IN  IF chunk_sizes = <<>> THEN "ValueError" ELSE "complete"

----------------------------------------------------------------------------
(* The parsed document (BeautifulSoup).  soup is the sequence of the        *)
(* document's elements in document order; each element holds its tag, the   *)
(* index of its parent (0 for the document itself), its class list, its id, *)
(* the text it holds directly (ahead of its child elements) and the         *)
(* attributes the code reads.  None is the empty string or index 0: the     *)
(* code only tests the truth of what the helpers return.                    *)

None == <<>>

Element(tag, parent, class, id, string, alt, title, href) ==
    [tag |-> tag, parent |-> parent, class |-> class, id |-> id, string |-> string,
     alt |-> alt, title |-> title, href |-> href]

\* the elements of set S in document order
RECURSIVE InOrder(_)
InOrder(S) == IF S = {} THEN <<>> ELSE <<Min(S)>> \o InOrder(S \ {Min(S)})

RECURSIVE IsAncestor(_, _, _)
IsAncestor(doc, a, j) ==
    /\ doc[j].parent # 0
    /\ (doc[j].parent = a \/ IsAncestor(doc, a, doc[j].parent))

Descendants(doc, i) == {j \in 1..Len(doc) : IsAncestor(doc, i, j)}

\* Tag.find_all(tags) / soup.find_all(tags): the matching descendants in document order
FindAll(doc, i, tags) == InOrder({j \in Descendants(doc, i) : doc[j].tag \in tags})

SoupFindAll(doc, tags) == InOrder({j \in 1..Len(doc) : doc[j].tag \in tags})

\* Tag.find(tag, class_=class): the first matching descendant, or None (0);
\* class "" stands for no class filter
Find(doc, i, tag, class) ==
    LET found == {j \in Descendants(doc, i) :
                     doc[j].tag = tag /\ (class = "" \/ class \in doc[j].class)}
    IN  IF found = {} THEN 0 ELSE Min(found)

\* Tag.find_next_sibling(tag, class_=class): the first later sibling that matches
FindNextSibling(doc, i, tag, class) ==
    LET found == {j \in (i + 1)..Len(doc) :
                     /\ doc[j].parent = doc[i].parent
                     /\ doc[j].tag = tag
                     /\ class \in doc[j].class}
    IN  IF found = {} THEN 0 ELSE Min(found)

\* Python: a or b on element results
OrElse(a, b) == IF a # 0 THEN a ELSE b

\* Tag.get_text(sep, strip=True): the stripped non-empty strings of the element
\* and its descendants, in document order, joined by sep
GetText(doc, i, sep) ==
    LET holders == InOrder({j \in {i} \cup Descendants(doc, i) : Strip(doc[j].string) # <<>>})
    IN  Join(sep, [k \in 1..Len(holders) |-> Strip(doc[holders[k]].string)])

\* Tag.decompose() of every element of set S: the elements of S and their
\* descendants leave the document
Decompose(doc, S) ==
    LET gone == S \cup UNION {Descendants(doc, i) : i \in S}
        kept == InOrder((1..Len(doc)) \ gone)
        NewIndex(j) == Cardinality({k \in 1..Len(kept) : kept[k] <= j})
    IN  [k \in 1..Len(kept) |->
            [doc[kept[k]] EXCEPT !.parent = IF @ = 0 THEN 0 ELSE NewIndex(@)]]

----------------------------------------------------------------------------
(* src/data/web_scraping.py: page extraction                               *)

EDIT_CLASSES == {"mw-editsection", "mw-editsection-bracket"}

\* the second loop (span.mw-headline holding span.mw-editsection) finds
\* nothing after the first loop removed every span.mw-editsection
_cleanup_edit_sections(doc) ==
    Decompose(doc, {j \in 1..Len(doc) :
                       doc[j].tag \in {"span", "a"} /\ doc[j].class \cap EDIT_CLASSES # {}})

RELEVANT_TAGS == {"p", "table", "h1", "h2", "h3", "h4", "h5", "h6", "ul", "ol", "li", "div"}

\* a walk that takes the paragraphs first and the other elements after them
_get_relevant_elements_by_tag(doc) ==
    SoupFindAll(doc, {"p"}) \o SoupFindAll(doc, RELEVANT_TAGS \ {"p"})

_get_relevant_elements(doc) == SoupFindAll(doc, RELEVANT_TAGS)

ICON_CLASSES == {"icon", "mob-icon"}

IMAGE_LABEL == <<"I", "M", "A", "G", "E", "_", "L", "A", "B", "E", "L", ":", " ">>

_extract_icon_label(doc, i) ==
    IF doc[i].tag # "div" THEN None
    ELSE IF doc[i].class \cap ICON_CLASSES = {} THEN None
    ELSE LET name_div == OrElse(FindNextSibling(doc, i, "div", "name"),
                                FindNextSibling(doc, i, "div", "mob-name"))
             name_child == OrElse(Find(doc, i, "div", "name"), Find(doc, i, "div", "mob-name"))
             img_tag == Find(doc, i, "img", "")
             label == IF img_tag = 0 THEN None
                      ELSE IF doc[img_tag].alt # None THEN doc[img_tag].alt
                      ELSE doc[img_tag].title
             possible_name == GetText(doc, i, <<>>)
         IN  IF name_div # 0
             THEN (IF GetText(doc, name_div, <<>>) # <<>>
                   THEN IMAGE_LABEL \o GetText(doc, name_div, <<>>) ELSE None)
             ELSE IF name_child # 0
             THEN (IF GetText(doc, name_child, <<>>) # <<>>
                   THEN IMAGE_LABEL \o GetText(doc, name_child, <<>>) ELSE None)
             ELSE IF label # None THEN IMAGE_LABEL \o label
             ELSE IF possible_name # <<>> THEN IMAGE_LABEL \o possible_name
             ELSE None

CELL_SEPARATOR == <<" ", "|", " ">>

TABLE_HEADER == <<"\n", "T", "A", "B", "L", "E", ":", "\n">>

\* the text of one row: its non-empty cell texts joined by " | "
RowText(doc, row) ==
    LET cells == FindAll(doc, row, {"th", "td"})
        filled == SelectSeq(cells, LAMBDA c : GetText(doc, c, <<>>) # <<>>)
    IN  Join(CELL_SEPARATOR, [k \in 1..Len(filled) |-> GetText(doc, filled[k], <<>>)])

_extract_table_text(doc, i) ==
    IF doc[i].tag # "table" THEN None
    ELSE LET rows == FindAll(doc, i, {"tr"})
             kept == SelectSeq(rows, LAMBDA r : RowText(doc, r) # <<>>)
             table_content == [k \in 1..Len(kept) |-> RowText(doc, kept[k])]
         IN  IF table_content # <<>>
             THEN TABLE_HEADER \o Join(<<"\n">>, table_content) \o <<"\n">>
             ELSE None

HEADER_TAGS == {"h1", "h2", "h3", "h4", "h5", "h6"}

\* Python: element.name.upper() for a header tag
UpperTag(tag) ==
    CASE tag = "h1" -> <<"H", "1">> [] tag = "h2" -> <<"H", "2">> [] tag = "h3" -> <<"H", "3">>
      [] tag = "h4" -> <<"H", "4">> [] tag = "h5" -> <<"H", "5">> [] tag = "h6" -> <<"H", "6">>

_extract_header_text(doc, i) ==
    IF doc[i].tag \notin HEADER_TAGS THEN None
    ELSE IF GetText(doc, i, <<>>) # <<>>
         THEN UpperTag(doc[i].tag) \o <<":", " ">> \o GetText(doc, i, <<>>)
    ELSE None

WIKI_ORIGIN == <<"h", "t", "t", "p", "s", ":", "/", "/", "m", "i", "n", "e", "c", "r", "a", "f", "t", ".", "w", "i", "k", "i">>

\* the line of one list item
ItemLine(doc, li, is_tutorials_page) ==
    LET a_tag == Find(doc, li, "a", "")
        li_text == GetText(doc, li, <<" ">>)
        plain == IF li_text # <<>> THEN <<<<"-", " ">> \o li_text>> ELSE <<>>
    IN  IF is_tutorials_page
        THEN IF a_tag # 0 /\ doc[a_tag].href # None
             THEN LET link_text == GetText(doc, a_tag, <<" ">>)
                      href == IF StartsWith(doc[a_tag].href, <<"/">>)
                              THEN WIKI_ORIGIN \o doc[a_tag].href
                              ELSE doc[a_tag].href
                  IN  <<<<"-", " ", "[">> \o link_text \o <<"]", "(">> \o href \o <<")">>>>
             ELSE plain
        ELSE plain

_extract_list_text(doc, i, is_tutorials_page) ==
    IF doc[i].tag \notin {"ul", "ol"} THEN None
    ELSE LET list_items == FindAll(doc, i, {"li"})
             list_content == Concat([k \in 1..Len(list_items) |->
                                        ItemLine(doc, list_items[k], is_tutorials_page)])
         IN  IF list_items = <<>> THEN None
             ELSE IF list_content # <<>> THEN Join(<<"\n">>, list_content)
             ELSE None

\* a paragraph rule that takes the text of an element of any kind
_extract_paragraph_text_any_tag(doc, i, is_crafting_site) ==
    IF is_crafting_site THEN None
    ELSE GetText(doc, i, <<" ">>)

_extract_paragraph_text(doc, i, is_crafting_site) ==
    IF doc[i].tag # "p" THEN None
    ELSE IF is_crafting_site THEN None
    ELSE GetText(doc, i, <<" ">>)

\* re.sub(r"\s{2,}", " ", s), from position i of s on: every run of two or more
\* whitespace characters becomes one space
RECURSIVE CollapseSpacesFrom(_, _)
CollapseSpacesFrom(s, i) ==
    LET found == {m \in i..(Len(s) - 1) : s[m] \in Whitespace /\ s[m + 1] \in Whitespace}
        at == Min(found)
        visible == {j \in at..Len(s) : s[j] \notin Whitespace}
    IN  IF found = {} THEN SubSeq(s, i, Len(s))
        ELSE SubSeq(s, i, at - 1) \o <<" ">>
                 \o (IF visible = {} THEN <<>> ELSE CollapseSpacesFrom(s, Min(visible)))

CollapseSpaces(s) == CollapseSpacesFrom(s, 1)

\* soup.select_one("main, .mw-parser-output, #content, body"): the first
\* element of the document that matches any of the four selectors
SelectMain(doc) ==
    LET found == {j \in 1..Len(doc) :
                     \/ doc[j].tag = "main"
                     \/ "mw-parser-output" \in doc[j].class
                     \/ doc[j].id = "content"
                     \/ doc[j].tag = "body"}
    IN  IF found = {} THEN 0 ELSE Min(found)

\* main.children that are elements, in order
Children(doc, i) == InOrder({j \in 1..Len(doc) : doc[j].parent = i})

\* the body of _extract_intro_before_first_table once main is chosen
IntroIn(doc, main) ==
    LET first_table == Find(doc, main, "table", "")
        all_p == SelectSeq(FindAll(doc, main, {"p"}), LAMBDA e : GetText(doc, e, <<" ">>) # <<>>)
        children == Children(doc, main)
        tables == {k \in 1..Len(children) : doc[children[k]].tag = "table"}
        before == IF tables = {} THEN children ELSE Take(children, Min(tables) - 1)
        blocks == SelectSeq(before, LAMBDA e : /\ doc[e].tag \in {"p", "div"}
                                               /\ GetText(doc, e, <<" ">>) # <<>>)
    IN  IF main = 0 THEN <<>>
        ELSE IF first_table = 0
        THEN Strip(CollapseSpaces(Join(<<" ">>,
                 [k \in 1..Len(all_p) |-> GetText(doc, all_p[k], <<" ">>)])))
        ELSE Strip(CollapseSpaces(Join(<<" ">>,
                 [k \in 1..Len(blocks) |-> GetText(doc, blocks[k], <<" ">>)])))

_extract_intro_before_first_table(doc) == IntroIn(doc, SelectMain(doc))

CRAFTING_HOST == <<"m", "i", "n", "e", "c", "r", "a", "f", "t", "c", "r", "a", "f", "t", "i", "n", "g", ".", "i", "n", "f", "o">>

\* urlparse(url).netloc: what lies between "//" and the next "/", "?" or "#"
Netloc(u) ==
    LET slashes == {i \in 1..Len(u) : StartsWithAt(u, <<"/", "/">>, i)}
        rest == IF slashes = {} THEN <<>> ELSE Drop(u, Min(slashes) + 1)
        ends == {i \in 1..Len(rest) : rest[i] \in {"/", "?", "#"}}
    IN  IF ends = {} THEN rest ELSE Take(rest, Min(ends) - 1)

_is_minecraft_crafting_webpage(u) ==
    LET netloc == Netloc(u)
        host == [i \in 1..Len(netloc) |-> Fold(netloc[i])]
    IN  Contains(host, CRAFTING_HOST)

\* what one pass of the loop body appends for element i: nothing, or the one
\* fragment of the first rule that returns text.  A fragment holds the string
\* appended (text) and, to tell the fragments apart, the element the loop was
\* at and the rule that gave the string.
Fragment(i, rule, string) == [element |-> i, rule |-> rule, text |-> string]

ScrapeElement(doc, i, is_tutorials_page, is_crafting_site) ==
    LET icon_label == _extract_icon_label(doc, i)
        table_text == _extract_table_text(doc, i)
        header_text == _extract_header_text(doc, i)
        list_text == _extract_list_text(doc, i, is_tutorials_page)
        para_text == _extract_paragraph_text(doc, i, is_crafting_site)
    IN  IF icon_label # None THEN <<Fragment(i, "icon_label", icon_label)>>
        ELSE IF table_text # None THEN <<Fragment(i, "table", table_text)>>
        ELSE IF header_text # None THEN <<Fragment(i, "header", header_text)>>
        ELSE IF list_text # None THEN <<Fragment(i, "list", list_text)>>
        ELSE IF para_text # None THEN <<Fragment(i, "paragraph", para_text)>>
        ELSE <<>>

\* the loop "for element in _get_relevant_elements(soup)" from position k on
RECURSIVE ScrapeFrom(_, _, _, _, _)
ScrapeFrom(doc, elements, k, is_tutorials_page, is_crafting_site) ==
    IF k > Len(elements) THEN <<>>
    ELSE ScrapeElement(doc, elements[k], is_tutorials_page, is_crafting_site)
             \o ScrapeFrom(doc, elements, k + 1, is_tutorials_page, is_crafting_site)

\* content_parts of _scrape_page at its return, for the document after
\* _cleanup_edit_sections; the intro fragment belongs to no element (0)
ScrapeParts(doc, u) ==
    LET is_crafting_site == _is_minecraft_crafting_webpage(u)
        is_tutorials_page == (u = PageUrl(<<"t", "u", "t", "o", "r", "i", "a", "l", "s">>))
        intro_text == _extract_intro_before_first_table(doc)
    IN  (IF is_crafting_site /\ intro_text # <<>>
         THEN <<Fragment(0, "intro", intro_text)>> ELSE <<>>)
        \o ScrapeFrom(doc, _get_relevant_elements(doc), 1, is_tutorials_page, is_crafting_site)

\* the string _scrape_page returns for the fetched document
_scrape_page(fetched, u) ==
    LET parts == ScrapeParts(_cleanup_edit_sections(fetched), u)
    IN  Join(<<"\n">>, [k \in 1..Len(parts) |-> parts[k].text])

----------------------------------------------------------------------------
(* The states no script is using                                           *)

NoScrape == url = "" /\ soup = <<>> /\ content_parts = <<>>

NoBatch == pages = <<>> /\ web = <<>> /\ item = 0 /\ all_content = <<>> /\ lore_json = <<>>

NoClean == raw = <<>> /\ cleaned = <<>>

NoNormalize == text = <<>> /\ once = <<>> /\ twice = <<>>

NoEmbed ==
    lore_data = <<>> /\ chunks_of = <<>> /\ docs = <<>> /\ run = "idle" /\ hit_urls = <<>>

----------------------------------------------------------------------------
(* Specification SpecNormalize: normalize_text applied once and again      *)

MaxPieces == 4

NormalizePieces ==
    {<<"X">>, <<" ">>, <<"U+201A">>, <<"U+00C5">>, <<"U+00D1">>, <<"U+00C4">>,
     <<"U+00E5">>, ZWNJ, ZWSP, BE_ONLY, JE_ONLY}

InitNormalize ==
    /\ pc = "start"
    /\ text \in PiecesUpTo(NormalizePieces, MaxPieces)
    /\ once = <<>> /\ twice = <<>>
    /\ NoScrape /\ NoBatch /\ NoClean /\ NoEmbed

Normalize ==
    /\ pc = "start"
    /\ once' = normalize_text(text)
    /\ pc' = "once"
    /\ UNCHANGED <<url, soup, content_parts, pages, web, item, all_content, lore_json, raw, cleaned,
                   text, twice, lore_data, chunks_of, docs, run, hit_urls>>

NormalizeAgain ==
    /\ pc = "once"
    /\ twice' = normalize_text(once)
    /\ pc' = "twice"
    /\ UNCHANGED <<url, soup, content_parts, pages, web, item, all_content, lore_json, raw, cleaned,
                   text, once, lore_data, chunks_of, docs, run, hit_urls>>

NextNormalize == Normalize \/ NormalizeAgain

SpecNormalize == InitNormalize /\ [][NextNormalize]_vars

\* C7: normalize_text is idempotent: normalizing the normalized text returns
\* it unchanged, for every input text.
C7_NormalizeIdempotent == pc = "twice" => twice = once

\* C8: every zero-width marker (U+200C) immediately followed by "[BE only]" or
\* "[JE only]" in the input comes out as one space followed by the same
\* bracketed marker: the output holds at least as many " [BE only]" as the
\* input holds marked "[BE only]", and likewise for JE.
C8_EditionMarkerSpaced ==
    pc = "once" =>
        \A tag \in {BE_ONLY, JE_ONLY} :
            Count(once, <<" ">> \o tag) >= Count(text, ZWNJ \o tag)

----------------------------------------------------------------------------
(* Specification SpecClean: _clean_scraped_text on flattened page text     *)

MaxLines == 4

\* lines as _scrape_page joins them: headers "H2: <title>" and body lines
CleanLines ==
    {<<"H", "2", ":", " ", "C", "o", "n", "t", "e", "n", "t", "s">>,
     <<"H", "2", ":", " ", "H", "i", "s", "t", "o", "r", "y">>,
     <<"h", "2", ":", " ", "g", "a", "l", "l", "e", "r", "y">>,
     <<"H", "2", ":", " ", "T", "r", "a", "d", "i", "n", "g">>,
     <<"H", "2", ":", " ", "T", "r", "i", "v", "i", "a">>,
     <<"H", "2", ":", " ", "H", "i", "s", "t", "o", "r", "y", " ", "o", "f", " ", "t", "r", "a", "d", "i", "n", "g">>,
     <<"f", "o", "o">>,
     <<"b", "a", "r">>}

RECURSIVE LinesUpTo(_)
LinesUpTo(n) ==
    IF n = 0 THEN {<<>>}
    ELSE LET shorter == LinesUpTo(n - 1)
         IN  shorter \cup {ls \o <<l>> : ls \in shorter, l \in CleanLines}

InitClean ==
    /\ pc = "start"
    /\ raw \in {Join(<<"\n">>, ls) : ls \in LinesUpTo(MaxLines)}
    /\ cleaned = <<>>
    /\ NoScrape /\ NoBatch /\ NoNormalize /\ NoEmbed

Clean ==
    /\ pc = "start"
    /\ cleaned' = _clean_scraped_text(raw)
    /\ pc' = "done"
    /\ UNCHANGED <<url, soup, content_parts, pages, web, item, all_content, lore_json, raw,
                   text, once, twice, lore_data, chunks_of, docs, run, hit_urls>>

NextClean == Clean

SpecClean == InitClean /\ [][NextClean]_vars

\* the text cut after each newline: every piece but the last ends in "\n"
RECURSIVE SplitKeepEnds(_)
SplitKeepEnds(s) ==
    IF s = <<>> THEN <<>>
    ELSE LET ends == {i \in 1..Len(s) : s[i] = "\n"}
             cut  == IF ends = {} THEN Len(s) ELSE Min(ends)
         IN  <<Take(s, cut)>> \o SplitKeepEnds(Drop(s, cut))

IsH2Line(l) == MatchesAtIgnoreCase(l, H2_PREFIX, 1)

\* the title of a header line, without the line end
TitleOf(l) == RStrip(Drop(l, Len(H2_PREFIX)))

SameIgnoreCase(a, b) == Len(a) = Len(b) /\ MatchesAtIgnoreCase(a, b, 1)

DeniedTitles == {CONTENTS} \cup {unwanted_h2_sections[i] : i \in 1..Len(unwanted_h2_sections)}

IsDeniedH2Line(l) == IsH2Line(l) /\ \E t \in DeniedTitles : SameIgnoreCase(TitleOf(l), t)

\* a header whose title begins with a denylisted name without being one
IsPrefixOnlyH2Line(l) ==
    /\ IsH2Line(l)
    /\ ~IsDeniedH2Line(l)
    /\ \E t \in DeniedTitles : MatchesAtIgnoreCase(TitleOf(l), t, 1)

\* the lines outside every section opened by a denylisted H2 header
RECURSIVE KeepOutsideDenied(_, _)
KeepOutsideDenied(ls, skipping) ==
    IF ls = <<>> THEN <<>>
    ELSE LET skip == IF IsH2Line(Head(ls)) THEN IsDeniedH2Line(Head(ls)) ELSE skipping
         IN  (IF skip THEN <<>> ELSE <<Head(ls)>>) \o KeepOutsideDenied(Tail(ls), skip)

WithoutDeniedH2(s) == Concat(KeepOutsideDenied(SplitKeepEnds(s), FALSE))

DocumentedUnwanted ==
    {<<"V", "i", "d", "e", "o">>,
     <<"H", "i", "s", "t", "o", "r", "y">>,
     <<"T", "r", "i", "v", "i", "a">>,
     <<"G", "a", "l", "l", "e", "r", "y">>,
     <<"S", "c", "r", "e", "e", "n", "s", "h", "o", "t", "s">>,
     <<"R", "e", "f", "e", "r", "e", "n", "c", "e", "s">>,
     <<"N", "a", "v", "i", "g", "a", "t", "i", "o", "n">>}

\* C10: no H2 section that the documentation of _clean_scraped_text names as
\* unwanted (Video, History, Trivia, Gallery, Screenshots, References,
\* Navigation) is left in the cleaned text.
C10_DocumentedSectionsRemoved ==
    pc = "done" =>
        \A t \in DocumentedUnwanted :
            \A i \in 1..Len(cleaned) : ~MatchesAtIgnoreCase(cleaned, H2_PREFIX \o t, i)

----------------------------------------------------------------------------
(* Specification SpecEmbed: the main block of src/data/embedder.py         *)

MaxDocs == 2

MaxChunks == 1

\* a run of n visible characters
Body(n) == [i \in 1..n |-> "x"]

\* candidate chunks as the splitter may return them: trimmed lengths around
\* the threshold, bare or wrapped in whitespace, and the empty chunk
CandidateChunks ==
    {<<>>, Body(25), Body(30), Body(31),
     <<" ">> \o Body(30) \o <<"\n">>, <<" ">> \o Body(31) \o <<"\n">>}

RECURSIVE SeqsUpTo(_, _)
SeqsUpTo(S, n) ==
    IF n = 0 THEN {<<>>}
    ELSE LET shorter == SeqsUpTo(S, n - 1)
         IN  shorter \cup {s \o <<x>> : s \in shorter, x \in S}

\* the entry _save_to_json writes for page i of WIKI_PAGES
Entry(i, content) ==
    [title |-> Capitalize(WIKI_PAGES[i].label), url |-> WIKI_PAGES[i].url, content |-> content]

InitEmbed ==
    /\ pc = "loaded"
    /\ chunks_of \in SeqsUpTo(SeqsUpTo(CandidateChunks, MaxChunks), MaxDocs)
    /\ lore_data = [i \in 1..Len(chunks_of) |-> Entry(i, Concat(chunks_of[i]))]
    /\ docs = <<>>
    /\ run = "running"
    /\ hit_urls = <<>>
    /\ NoScrape /\ NoBatch /\ NoClean /\ NoNormalize

SplitAndPrepare ==
    /\ pc = "loaded"
    /\ docs' = split_and_prepare_documents(lore_data, chunks_of)
    /\ pc' = "split"
    /\ UNCHANGED <<url, soup, content_parts, pages, web, item, all_content, lore_json, raw, cleaned,
                   text, once, twice, lore_data, chunks_of, run, hit_urls>>

BuildVectorIndex ==
    /\ pc = "split"
    /\ run' = build_vector_index(docs)
    /\ pc' = "done"
    /\ UNCHANGED <<url, soup, content_parts, pages, web, item, all_content, lore_json, raw, cleaned,
                   text, once, twice, lore_data, chunks_of, docs, hit_urls>>

NextEmbed == SplitAndPrepare \/ BuildVectorIndex

SpecEmbed == InitEmbed /\ [][NextEmbed]_vars

\* the Documents of exactly the candidate chunks whose trimmed length is at
\* least least, entry by entry in chunk order
RECURSIVE DocumentsOfLength(_, _)
DocumentsOfLength(i, least) ==
    IF i > Len(lore_data) THEN <<>>
    ELSE LET kept == SelectSeq(chunks_of[i], LAMBDA c : Len(Strip(c)) >= least)
         IN  [k \in 1..Len(kept) |-> Document(lore_data[i], kept[k])]
                 \o DocumentsOfLength(i + 1, least)

\* C5: a document that yields zero chunks is never fatal: the run of the main
\* block (split_and_prepare_documents, then build_vector_index with its
\* statistics) completes without raising, also when no document yields a chunk.
C5_ZeroChunksNotFatal == pc = "done" => run = "complete"

\* C6 as claimed: a candidate chunk is kept if and only if its trimmed length
\* is 30 or more.
C6_KeptFromThirty == pc # "loaded" => docs = DocumentsOfLength(1, 30)

\* C6 as the code has it: a candidate chunk is kept if and only if its trimmed
\* length is more than 30 (31 is kept; 30 and 25 are dropped).
C6_KeptAboveThirty == pc # "loaded" => docs = DocumentsOfLength(1, 31)

\* a run in which a chunk of trimmed length 30 was dropped and one of 31 kept
C6_Witness ==
    /\ pc = "split"
    /\ \E i \in 1..Len(chunks_of) : \E k \in 1..Len(chunks_of[i]) :
           Len(Strip(chunks_of[i][k])) = 30
    /\ \E d \in 1..Len(docs) : docs[d].metadata.chunk_size >= 31
    /\ Len(docs) = 1

----------------------------------------------------------------------------
(* Specification SpecScrape: _scrape_page on one fetched document          *)

MaxBlocks == 4

\* an element of a block: parent counts inside the block, 0 is the body
El(tag, parent, class, has_string) ==
    Element(tag, parent, class, "", IF has_string THEN <<"?">> ELSE <<>>, None, None, None)

\* the pieces of markup a page is made of: a header with its section-edit
\* link, a paragraph, a table with one cell, a table whose cell holds a
\* paragraph, a list, a stray list item, a plain div, an icon div
Blocks ==
    {<<El("h2", 0, {}, TRUE), El("span", 1, {"mw-editsection"}, TRUE)>>,
     <<El("p", 0, {}, TRUE)>>,
     <<El("table", 0, {}, FALSE), El("tr", 1, {}, FALSE), El("td", 2, {}, TRUE)>>,
     <<El("table", 0, {}, FALSE), El("tr", 1, {}, FALSE), El("td", 2, {}, FALSE),
       El("p", 3, {}, TRUE)>>,
     <<El("ul", 0, {}, FALSE), El("li", 1, {}, TRUE)>>,
     <<El("li", 0, {}, TRUE)>>,
     <<El("div", 0, {}, TRUE)>>,
     <<El("div", 0, {"icon"}, TRUE)>>}

\* the blocks hung under the body (element 1), one after the other
RECURSIVE Attach(_, _)
Attach(bs, offset) ==
    IF bs = <<>> THEN <<>>
    ELSE [k \in 1..Len(Head(bs)) |->
             [Head(bs)[k] EXCEPT !.parent = IF @ = 0 THEN 1 ELSE offset + @]]
         \o Attach(Tail(bs), offset + Len(Head(bs)))

\* the page made of the blocks bs; every string of the page is its own letter
PageOf(bs) ==
    LET doc == <<El("body", 0, {}, FALSE)>> \o Attach(bs, 1)
    IN  [i \in 1..Len(doc) |->
            [doc[i] EXCEPT !.string = IF @ = <<>> THEN <<>> ELSE <<Lower[i]>>]]

Pages == {PageOf(bs) : bs \in SeqsUpTo(Blocks, MaxBlocks)}

ScrapeUrls == {PageUrl(<<"t", "r", "a", "d", "i", "n", "g">>),
               PageUrl(<<"t", "u", "t", "o", "r", "i", "a", "l", "s">>),
               PageUrl(<<"c", "r", "a", "f", "t", "i", "n", "g", " ", "r", "e", "c", "i", "p", "e", "s">>)}

InitScrape ==
    /\ pc = "fetched"
    /\ url \in ScrapeUrls
    /\ soup \in Pages
    /\ content_parts = <<>>
    /\ NoBatch /\ NoClean /\ NoNormalize /\ NoEmbed

\* _scrape_page after _fetch_soup returned: the edit links leave soup in place,
\* then the intro pass and the ordered walk fill content_parts
ScrapePage ==
    /\ pc = "fetched"
    /\ soup' = _cleanup_edit_sections(soup)
    /\ content_parts' = ScrapeParts(soup', url)
    /\ pc' = "scraped"
    /\ UNCHANGED <<url, pages, web, item, all_content, lore_json, raw, cleaned,
                   text, once, twice, lore_data, chunks_of, docs, run, hit_urls>>

NextScrape == ScrapePage

SpecScrape == InitScrape /\ [][NextScrape]_vars

\* the fragments the ordered walk appended (the intro fragment left out)
WalkParts == SelectSeq(content_parts, LAMBDA f : f.element # 0)

\* C1: the fragments of the ordered walk stand in the order of the elements
\* that produced them: no fragment of an earlier element comes after a
\* fragment of a later element.
C1_FragmentsInDocumentOrder ==
    pc = "scraped" =>
        \A a, b \in 1..Len(WalkParts) :
            a < b => WalkParts[a].element <= WalkParts[b].element

\* header, paragraph, table, list in the markup give fragments in that order
C1_Witness ==
    /\ pc = "scraped"
    /\ [k \in 1..Len(content_parts) |-> content_parts[k].rule]
           = <<"header", "paragraph", "table", "list">>

\* C2: every element appends at most one fragment, and the fragment comes from
\* the rule of the element's own kind (icon label for an icon div, table for a
\* table, header for h1..h6, list for ul/ol, paragraph for p): no rule of lower
\* priority adds a second one, and li, a plain div or any other element
\* appends nothing.
C2_OneFragmentFirstRule ==
    pc = "scraped" =>
        /\ \A e \in 1..Len(soup) :
               Cardinality({k \in 1..Len(WalkParts) : WalkParts[k].element = e}) <= 1
        /\ \A k \in 1..Len(WalkParts) :
               LET e == soup[WalkParts[k].element]
                   rule == WalkParts[k].rule
               IN  /\ WalkParts[k].text # <<>>
                   /\ rule = "icon_label" <=> (e.tag = "div" /\ e.class \cap ICON_CLASSES # {})
                   /\ rule = "table" <=> e.tag = "table"
                   /\ rule = "header" <=> e.tag \in HEADER_TAGS
                   /\ rule = "list" <=> e.tag \in {"ul", "ol"}
                   /\ rule = "paragraph" <=> e.tag = "p"

\* a page with a stray list item and a plain div, both holding text, and an
\* icon div: only the icon div appended a fragment
C2_Witness ==
    /\ pc = "scraped"
    /\ \E i \in 1..Len(soup) : soup[i].tag = "li" /\ soup[i].parent = 1 /\ soup[i].string # <<>>
    /\ \E i \in 1..Len(soup) : soup[i].tag = "div" /\ soup[i].class = {} /\ soup[i].string # <<>>
    /\ Len(content_parts) = 1
    /\ content_parts[1].rule = "icon_label"

\* C3: the text of each element is in at most one place of the walk's output:
\* no string of the page occurs twice in the fragments of the ordered walk.
C3_NoTextTwice ==
    pc = "scraped" =>
        \A i \in 1..Len(soup) :
            soup[i].string # <<>> =>
                Count(Join(<<"\n">>, [k \in 1..Len(WalkParts) |-> WalkParts[k].text]),
                      soup[i].string) <= 1

----------------------------------------------------------------------------
(* Specification SpecBatch: _scrape_multiple_pages over a dict of pages    *)

MaxPages == 3

\* a loop body that records nothing for a page whose fetch raised
RecordPage_skipping_failed(entries, label, u, fetched) ==
    IF fetched.status = "error"
    THEN entries
    ELSE Append(entries, [label |-> label,
                          content |-> _clean_scraped_text(_scrape_page(fetched.soup, u))])

\* the body of the loop of _scrape_multiple_pages for one item: the entry
\* all_content gains; fetched.status "error" is requests.RequestException
\* raised by _fetch_soup
RecordPage(entries, label, u, fetched) ==
    IF fetched.status = "error"
    THEN Append(entries, [label |-> label, content |-> <<>>])
    ELSE Append(entries, [label |-> label,
                          content |-> _clean_scraped_text(_scrape_page(fetched.soup, u))])

Text(tag, parent, string) == Element(tag, parent, {}, "", string, None, None, None)

\* a wiki article: a Contents section and a Trading section
ArticleDoc ==
    <<Text("body", 0, <<>>),
      Text("h2", 1, <<"C", "o", "n", "t", "e", "n", "t", "s">>), Text("p", 1, <<"f", "o", "o">>),
      Text("h2", 1, <<"T", "r", "a", "d", "i", "n", "g">>), Text("p", 1, <<"b", "a", "r">>)>>

\* a page with one table
TableDoc ==
    <<Text("body", 0, <<>>),
      Text("table", 1, <<>>), Text("tr", 2, <<>>), Text("td", 3, <<"A">>), Text("td", 3, <<"B">>)>>

Fetches == {[status |-> "error", soup |-> <<>>],
            [status |-> "ok", soup |-> ArticleDoc],
            [status |-> "ok", soup |-> TableDoc]}

\* the first four pages of WIKI_PAGES, each served in every way
BatchUrls == {WIKI_PAGES[i].url : i \in 1..4}

\* the dicts of at most n of these pages, in every order
RECURSIVE DictsUpTo(_)
DictsUpTo(n) ==
    IF n = 0 THEN {<<>>}
    ELSE LET shorter == DictsUpTo(n - 1)
         IN  shorter \cup
             UNION {{d \o <<WIKI_PAGES[i]>> :
                        i \in {j \in 1..4 : \A k \in 1..Len(d) : d[k] # WIKI_PAGES[j]}} :
                    d \in shorter}

InitBatch ==
    /\ pc = "start"
    /\ pages \in DictsUpTo(MaxPages)
    /\ web \in [BatchUrls -> Fetches]
    /\ item = 1
    /\ all_content = <<>>
    /\ lore_json = <<>>
    /\ NoScrape /\ NoClean /\ NoNormalize /\ NoEmbed

\* one pass of "for label, url in pages.items()"
ScrapeNextPage ==
    /\ pc = "start"
    /\ item <= Len(pages)
    /\ all_content' = RecordPage(all_content, pages[item].label, pages[item].url,
                                 web[pages[item].url])
    /\ item' = item + 1
    /\ UNCHANGED <<pc, url, soup, content_parts, pages, web, lore_json, raw, cleaned,
                   text, once, twice, lore_data, chunks_of, docs, run, hit_urls>>

\* the loop is over: _scrape_multiple_pages returns all_content
ScrapingCompleted ==
    /\ pc = "start"
    /\ item > Len(pages)
    /\ pc' = "done"
    /\ UNCHANGED <<url, soup, content_parts, pages, web, item, all_content, lore_json, raw, cleaned,
                   text, once, twice, lore_data, chunks_of, docs, run, hit_urls>>

NextBatch == ScrapeNextPage \/ ScrapingCompleted

SpecBatch == InitBatch /\ [][NextBatch]_vars

\* C4: when _scrape_multiple_pages returns, all_content holds one entry per
\* label of pages; the entry of a page whose fetch raised is "", and the entry
\* of every other page is that page's own cleaned content, whatever happened
\* to the pages before and after it.
C4_EveryPageRecorded ==
    pc = "done" =>
        /\ Len(all_content) = Len(pages)
        /\ \A k \in 1..Len(pages) :
               /\ all_content[k].label = pages[k].label
               /\ all_content[k].content =
                      IF web[pages[k].url].status = "error" THEN <<>>
                      ELSE _clean_scraped_text(_scrape_page(web[pages[k].url].soup, pages[k].url))

\* three pages, the second failing, the first and third with their content
C4_Witness ==
    /\ pc = "done"
    /\ Len(pages) = 3
    /\ web[pages[2].url].status = "error"
    /\ all_content[1].content = <<"H", "2", ":", " ", "T", "r", "a", "d", "i", "n", "g", "\n", "b", "a", "r">>
    /\ all_content[2].content = <<>>
    /\ all_content[3].content = <<"T", "A", "B", "L", "E", ":", "\n", "A", " ", "|", " ", "B">>

----------------------------------------------------------------------------
(* Specification SpecCleanH3: _clean_scraped_text on texts with H3 sections *)

MaxH3Lines == 4

\* header lines of both levels, denylisted and not, and body lines
CleanH3Lines ==
    {<<"H", "3", ":", " ", "J", "o", "k", "e", " ", "m", "o", "b", "s">>,
     <<"h", "3", ":", " ", "r", "e", "m", "o", "v", "e", "d", " ", "b", "l", "o", "c", "k", "s">>,
     <<"H", "3", ":", " ", "Z", "o", "m", "b", "i", "e">>,
     <<"H", "2", ":", " ", "M", "o", "b", "s">>,
     <<"H", "2", ":", " ", "H", "i", "s", "t", "o", "r", "y">>,
     <<"f", "o", "o">>,
     <<"b", "a", "r">>}

RECURSIVE H3LinesUpTo(_)
H3LinesUpTo(n) ==
    IF n = 0 THEN {<<>>}
    ELSE LET shorter == H3LinesUpTo(n - 1)
         IN  shorter \cup {ls \o <<l>> : ls \in shorter, l \in CleanH3Lines}

InitCleanH3 ==
    /\ pc = "start"
    /\ raw \in {Join(<<"\n">>, ls) : ls \in H3LinesUpTo(MaxH3Lines)}
    /\ cleaned = <<>>
    /\ NoScrape /\ NoBatch /\ NoNormalize /\ NoEmbed

SpecCleanH3 == InitCleanH3 /\ [][NextClean]_vars

IsH3Line(l) == MatchesAtIgnoreCase(l, H3_PREFIX, 1)

IsDeniedH3Line(l) ==
    /\ IsH3Line(l)
    /\ \E k \in 1..Len(unwanted_h3_sections) : SameIgnoreCase(TitleOf(l), unwanted_h3_sections[k])

\* the lines outside every section opened by a denylisted header: a denylisted
\* H2 section runs to the next H2 header, a denylisted H3 section to the next
\* header of either level
RECURSIVE KeepOutsideDeniedSections(_, _, _)
KeepOutsideDeniedSections(ls, in_h2, in_h3) ==
    IF ls = <<>> THEN <<>>
    ELSE LET l == Head(ls)
             skip_h2 == IF IsH2Line(l) THEN IsDeniedH2Line(l) ELSE in_h2
             skip_h3 == IF IsH2Line(l) THEN FALSE
                        ELSE IF IsH3Line(l) THEN IsDeniedH3Line(l)
                        ELSE in_h3
         IN  (IF skip_h2 \/ skip_h3 THEN <<>> ELSE <<l>>)
                 \o KeepOutsideDeniedSections(Tail(ls), skip_h2, skip_h3)

WithoutDeniedSections(s) == Concat(KeepOutsideDeniedSections(SplitKeepEnds(s), FALSE, FALSE))

\* C11: the removal of a denylisted H3 section stops at the next H3 header, the
\* next H2 header or the end of the text, whichever comes first: the cleaned
\* text is the input, trimmed, without its denylisted sections, and an H2 section that
\* follows a denylisted H3 section and is not itself denylisted is kept whole,
\* header included.
C11_H3RemovalStopsAtH2 ==
    pc = "done" => cleaned = Strip(WithoutDeniedSections(raw))

\* a denylisted H3 section followed by a top-level section that stays
C11_Witness ==
    /\ pc = "done"
    /\ raw = <<"H", "3", ":", " ", "J", "o", "k", "e", " ", "m", "o", "b", "s", "\n", "f", "o", "o", "\n", "H", "2", ":", " ", "M", "o", "b", "s", "\n", "b", "a", "r">>
    /\ cleaned = <<"H", "2", ":", " ", "M", "o", "b", "s", "\n", "b", "a", "r">>

----------------------------------------------------------------------------
(* Specification SpecFootnote: _clean_scraped_text on footnote references  *)

MaxFootnotePieces == 5

FootnotePieces == {FOOTNOTE_GLYPH, <<"a">>, <<"b">>, <<"A">>, <<" ">>, <<"1">>}

InitFootnote ==
    /\ pc = "start"
    /\ raw \in PiecesUpTo(FootnotePieces, MaxFootnotePieces)
    /\ cleaned = <<>>
    /\ NoScrape /\ NoBatch /\ NoNormalize /\ NoEmbed

SpecFootnote == InitFootnote /\ [][NextClean]_vars

\* position i of s is a letter of a footnote reference: a lowercase letter in
\* a run of lowercase letters that begins right after a glyph and is followed
\* by a character that is not a lowercase letter
IsReferenceLetter(s, i) ==
    /\ IsLower(s[i])
    /\ \E g \in 1..(i - 1) :
           /\ s[g] = FOOTNOTE_GLYPH[1]
           /\ \A j \in (g + 1)..i : IsLower(s[j])
    /\ \E e \in (i + 1)..Len(s) :
           /\ ~IsLower(s[e])
           /\ \A j \in i..(e - 1) : IsLower(s[j])

WithoutReferenceLetters(s) ==
    LET kept == {i \in 1..Len(s) : ~IsReferenceLetter(s, i)}
    IN  InOrderOf(s, kept)

\* C12: every glyph followed by lowercase letters that are followed by an
\* uppercase letter, whitespace or a non-letter loses exactly those letters
\* and stays; a glyph whose lowercase run ends the text, or that has no such
\* run, is left as it is: the cleaned text is the trimmed input without the
\* letters of its footnote references.
C12_FootnoteLettersStripped ==
    pc = "done" => cleaned = Strip(WithoutReferenceLetters(raw))

\* one reference followed by an uppercase letter loses its letter, one that
\* ends the text keeps it
C12_Witness ==
    /\ pc = "done"
    /\ raw = <<"U+2191", "a", "A", "U+2191", "a">>
    /\ cleaned = <<"U+2191", "A", "U+2191", "a">>

----------------------------------------------------------------------------
(* Specification SpecTable: _scrape_page on a page that holds one table    *)

MaxRows == 2

\* the element e with the blocks bs hung under it, one after the other
Nest(e, bs) == <<e>> \o Attach(bs, 1)

\* the cells of a row: empty, blank, filled (td and th), and a filled cell that
\* holds a table of its own
Cells ==
    {<<Text("td", 0, <<>>)>>,
     <<Text("td", 0, <<" ">>)>>,
     <<Text("td", 0, <<"A">>)>>,
     <<Text("th", 0, <<"B">>)>>,
     Nest(Text("td", 0, <<"A">>),
          <<Nest(Text("table", 0, <<>>),
                 <<Nest(Text("tr", 0, <<>>), <<<<Text("td", 0, <<"C">>)>>>>)>>)>>)}

\* rows of one cell and of two
Rows == {Nest(Text("tr", 0, <<>>), <<c>>) : c \in Cells}
            \cup {Nest(Text("tr", 0, <<>>), <<c, d>>) : c, d \in Cells}

TablePages ==
    {Nest(Text("body", 0, <<>>), <<Nest(Text("table", 0, <<>>), rs)>>) :
        rs \in SeqsUpTo(Rows, MaxRows) \ {<<>>}}

InitTable ==
    /\ pc = "fetched"
    /\ url = PageUrl(<<"t", "r", "a", "d", "i", "n", "g">>)
    /\ soup \in TablePages
    /\ content_parts = <<>>
    /\ NoBatch /\ NoClean /\ NoNormalize /\ NoEmbed

SpecTable == InitTable /\ [][NextScrape]_vars

\* the table an element of the page belongs to: its nearest table ancestor
TableOf(doc, i) ==
    LET above == {t \in 1..Len(doc) : doc[t].tag = "table" /\ IsAncestor(doc, t, i)}
    IN  IF above = {} THEN 0 ELSE Max(above)

\* the rows of table t, in document order
RowsOfTable(doc, t) ==
    InOrder({r \in 1..Len(doc) : doc[r].tag = "tr" /\ TableOf(doc, r) = t})

\* the cells of row r: its th and td children, in document order
CellsOfRow(doc, r) ==
    InOrder({c \in 1..Len(doc) : doc[c].tag \in {"th", "td"} /\ doc[c].parent = r})

\* the line of row r: its non-empty cell texts joined by " | "
LineOfRow(doc, r) ==
    LET filled == SelectSeq(CellsOfRow(doc, r), LAMBDA c : GetText(doc, c, <<>>) # <<>>)
    IN  Join(<<" ", "|", " ">>, [k \in 1..Len(filled) |-> GetText(doc, filled[k], <<>>)])

\* the lines of table t: one per row that has a non-empty cell
LinesOfTable(doc, t) ==
    LET rows == SelectSeq(RowsOfTable(doc, t), LAMBDA r : LineOfRow(doc, r) # <<>>)
    IN  [k \in 1..Len(rows) |-> LineOfRow(doc, rows[k])]

\* C13: a table gives one line per row of it that has a non-empty cell, the
\* line being the row's non-empty cell texts joined by " | " in cell order;
\* the lines stand under a "TABLE:" header line, and a table none of whose
\* rows has a non-empty cell gives no fragment.
C13_TableRowsJoined ==
    pc = "scraped" =>
        \A t \in {i \in 1..Len(soup) : soup[i].tag = "table"} :
            LET lines == LinesOfTable(soup, t)
                fragments == SelectSeq(content_parts, LAMBDA f : f.element = t)
            IN  IF lines = <<>> THEN fragments = <<>>
                ELSE /\ Len(fragments) = 1
                     /\ fragments[1].text =
                            <<"\n", "T", "A", "B", "L", "E", ":", "\n">>
                                \o Join(<<"\n">>, lines) \o <<"\n">>

----------------------------------------------------------------------------
(* Specification SpecIcon: _scrape_page on a page of icons and name blocks *)

MaxIconBlocks == 3

\* an icon with its own text, icons with an image (alt, title only), an icon
\* with a name block and an image inside, name blocks of both classes, a paragraph
IconBlocks ==
    {<<Element("div", 0, {"icon"}, "", <<"Z", "o", "m", "b", "i", "e">>, None, None, None)>>,
     <<Element("div", 0, {"mob-icon"}, "", <<>>, None, None, None),
       Element("img", 1, {}, "", <<>>, <<"X">>, <<"T">>, None)>>,
     <<Element("div", 0, {"icon"}, "", <<>>, None, None, None),
       Element("img", 1, {}, "", <<>>, None, <<"T">>, None)>>,
     <<Element("div", 0, {"icon"}, "", <<>>, None, None, None),
       Element("div", 1, {"name"}, "", <<"K">>, None, None, None),
       Element("img", 1, {}, "", <<>>, <<"X">>, None, None)>>,
     <<Element("div", 0, {"name"}, "", <<"N">>, None, None, None)>>,
     <<Element("div", 0, {"mob-name"}, "", <<"M">>, None, None, None)>>,
     <<Element("p", 0, {}, "", <<"q">>, None, None, None)>>}

IconPages ==
    {Nest(Text("body", 0, <<>>), bs) : bs \in SeqsUpTo(IconBlocks, MaxIconBlocks)}

InitIcon ==
    /\ pc = "fetched"
    /\ url = PageUrl(<<"m", "o", "b", "s">>)
    /\ soup \in IconPages
    /\ content_parts = <<>>
    /\ NoBatch /\ NoClean /\ NoNormalize /\ NoEmbed

SpecIcon == InitIcon /\ [][NextScrape]_vars

NAME_CLASSES == {"name", "mob-name"}

IsIcon(doc, i) == doc[i].tag = "div" /\ doc[i].class \cap ICON_CLASSES # {}

IsNameBlock(doc, j) == doc[j].tag = "div" /\ doc[j].class \cap NAME_CLASSES # {}

\* the sibling that immediately follows element i, or 0
ImmediateSibling(doc, i) ==
    LET later == {j \in (i + 1)..Len(doc) : doc[j].parent = doc[i].parent}
    IN  IF later = {} THEN 0 ELSE Min(later)

\* the label of icon i by the chain (a) name block right after it, (b) name
\* block inside it, (c) alt, else title, of an image inside it, (d) its own text
LabelOf(doc, i) ==
    LET next == ImmediateSibling(doc, i)
        inside == {j \in Descendants(doc, i) : IsNameBlock(doc, j)}
        images == {j \in Descendants(doc, i) : doc[j].tag = "img"}
        img == Min(images)
    IN  IF next # 0 /\ IsNameBlock(doc, next) THEN GetText(doc, next, <<>>)
        ELSE IF inside # {} THEN GetText(doc, Min(inside), <<>>)
        ELSE IF images # {} /\ doc[img].alt # <<>> THEN doc[img].alt
        ELSE IF images # {} /\ doc[img].title # <<>> THEN doc[img].title
        ELSE GetText(doc, i, <<>>)

\* C14: the label of an icon div comes from (a) the name or mob-name div that
\* immediately follows it, else (b) a name or mob-name div inside it, else
\* (c) the alt, else the title, of an image inside it, else (d) its own text;
\* (a) applies only when the name div immediately follows the icon div, and
\* an icon with text "Zombie" and none of (a)-(c) gives "IMAGE_LABEL: Zombie".
C14_IconLabelChain ==
    pc = "scraped" =>
        \A i \in {j \in 1..Len(soup) : IsIcon(soup, j)} :
            LabelOf(soup, i) # <<>> =>
                SelectSeq(content_parts, LAMBDA f : f.element = i)
                    = <<Fragment(i, "icon_label",
                                 <<"I", "M", "A", "G", "E", "_", "L", "A", "B", "E", "L", ":", " ">>
                                     \o LabelOf(soup, i))>>

----------------------------------------------------------------------------
(* Specification SpecList: _scrape_page on a page that holds one list      *)

MaxItems == 3

Link(parent, href, string) == Element("a", parent, {}, "", string, None, None, href)

\* list items: plain text; a link with a site-relative, an absolute and a
\* fragment-only href; text ahead of a link; an anchor without href
Items ==
    {<<Text("li", 0, <<"T">>)>>,
     <<Text("li", 0, <<>>), Link(1, <<"/", "w", "/", "F", "o", "o">>, <<"F", "o", "o">>)>>,
     <<Text("li", 0, <<>>), Link(1, <<"h", "t", "t", "p", "s", ":", "/", "/", "e", "x", "a", "m", "p", "l", "e", ".", "o", "r", "g", "/", "e">>, <<"E">>)>>,
     <<Text("li", 0, <<>>), Link(1, <<"#", "S", "u", "r", "v", "i", "v", "a", "l">>, <<"S">>)>>,
     <<Text("li", 0, <<"s", "e", "e">>), Link(1, <<"/", "w", "/", "B", "a", "r">>, <<"B", "a", "r">>)>>,
     <<Text("li", 0, <<>>), Link(1, None, <<"G">>)>>}

ListPages ==
    {Nest(Text("body", 0, <<>>), <<Nest(Text("ul", 0, <<>>), items)>>) :
        items \in SeqsUpTo(Items, MaxItems) \ {<<>>}}

\* the tutorials index, another wiki page, and an address that differs from
\* the tutorials index by a trailing slash
ListUrls == {PageUrl(<<"t", "u", "t", "o", "r", "i", "a", "l", "s">>), PageUrl(<<"t", "r", "a", "d", "i", "n", "g">>),
             PageUrl(<<"t", "u", "t", "o", "r", "i", "a", "l", "s">>) \o <<"/">>}

InitList ==
    /\ pc = "fetched"
    /\ url \in ListUrls
    /\ soup \in ListPages
    /\ content_parts = <<>>
    /\ NoBatch /\ NoClean /\ NoNormalize /\ NoEmbed

SpecList == InitList /\ [][NextScrape]_vars

\* the lines of a text, without their line ends
SplitLines(s) ==
    LET pieces == SplitKeepEnds(s)
    IN  [k \in 1..Len(pieces) |->
            IF pieces[k][Len(pieces[k])] = "\n" THEN Take(pieces[k], Len(pieces[k]) - 1)
            ELSE pieces[k]]

IsAbsoluteUrl(u) ==
    StartsWith(u, <<"h", "t", "t", "p", "s", ":", "/", "/">>) \/ StartsWith(u, <<"h", "t", "t", "p", ":", "/", "/">>)

\* the hyperlink of list item li: its first anchor that has an href, or 0
HyperlinkOf(doc, li) ==
    LET links == {a \in Descendants(doc, li) : doc[a].tag = "a" /\ doc[a].href # <<>>}
    IN  IF links = {} THEN 0 ELSE Min(links)

\* line is "- [<link text>](<target>)" with an absolute target: the href itself
\* when it is absolute, the origin of the page followed by the href when it
\* is site-relative
IsLinkLine(doc, a, line) ==
    LET opening == <<"-", " ", "[">> \o GetText(doc, a, <<" ">>) \o <<"]", "(">>
        target == SubSeq(line, Len(opening) + 1, Len(line) - 1)
    IN  /\ StartsWith(line, opening)
        /\ Len(line) > Len(opening)
        /\ line[Len(line)] = ")"
        /\ IsAbsoluteUrl(target)
        /\ IsAbsoluteUrl(doc[a].href) => target = doc[a].href
        /\ StartsWith(doc[a].href, <<"/">>) =>
               target = <<"h", "t", "t", "p", "s", ":", "/", "/", "m", "i", "n", "e", "c", "r", "a", "f", "t", ".", "w", "i", "k", "i">> \o doc[a].href

\* C15: on the page whose URL is exactly the tutorials index every list item
\* that holds a hyperlink gives the line "- [<link text>](<absolute URL>)", a
\* site-relative href resolved against the origin of the page and an absolute
\* href kept; an item without a hyperlink, and every item on any other page,
\* gives "- <item text>".
C15_LinksOnlyListLines ==
    pc = "scraped" =>
        \A u \in {i \in 1..Len(soup) : soup[i].tag = "ul"} :
            LET items == FindAll(soup, u, {"li"})
                fragments == SelectSeq(content_parts, LAMBDA f : f.element = u)
                lines == SplitLines(fragments[1].text)
            IN  /\ Len(fragments) = 1
                /\ Len(lines) = Len(items)
                /\ \A k \in 1..Len(items) :
                       IF url = PageUrl(<<"t", "u", "t", "o", "r", "i", "a", "l", "s">>) /\ HyperlinkOf(soup, items[k]) # 0
                       THEN IsLinkLine(soup, HyperlinkOf(soup, items[k]), lines[k])
                       ELSE lines[k] = <<"-", " ">> \o GetText(soup, items[k], <<" ">>)

----------------------------------------------------------------------------
(* Specification SpecHost: _scrape_page on pages of several hosts          *)

MaxHostBlocks == 2

\* the crafting site as configured, bare, in capitals and with a path; a wiki
\* page; a host of another domain whose name holds the crafting domain; a
\* page of another host whose path holds it
HostUrls ==
    {PageUrl(<<"c", "r", "a", "f", "t", "i", "n", "g", " ", "r", "e", "c", "i", "p", "e", "s">>),
     <<"h", "t", "t", "p", "s", ":", "/", "/", "m", "i", "n", "e", "c", "r", "a", "f", "t", "c", "r", "a", "f", "t", "i", "n", "g", ".", "i", "n", "f", "o", "/", "s", "m", "e", "l", "t", "i", "n", "g">>,
     <<"h", "t", "t", "p", "s", ":", "/", "/", "M", "i", "n", "e", "c", "r", "a", "f", "t", "C", "r", "a", "f", "t", "i", "n", "g", ".", "I", "N", "F", "O">>,
     PageUrl(<<"t", "r", "a", "d", "i", "n", "g">>),
     <<"h", "t", "t", "p", "s", ":", "/", "/", "m", "i", "n", "e", "c", "r", "a", "f", "t", "c", "r", "a", "f", "t", "i", "n", "g", ".", "i", "n", "f", "o", ".", "e", "x", "a", "m", "p", "l", "e", ".", "o", "r", "g", "/">>,
     <<"h", "t", "t", "p", "s", ":", "/", "/", "e", "x", "a", "m", "p", "l", "e", ".", "o", "r", "g", "/", "m", "i", "n", "e", "c", "r", "a", "f", "t", "c", "r", "a", "f", "t", "i", "n", "g", ".", "i", "n", "f", "o">>}

InitHost ==
    /\ pc = "fetched"
    /\ url \in HostUrls
    /\ soup \in {PageOf(bs) : bs \in SeqsUpTo(Blocks, MaxHostBlocks)}
    /\ content_parts = <<>>
    /\ NoBatch /\ NoClean /\ NoNormalize /\ NoEmbed

SpecHost == InitHost /\ [][NextScrape]_vars

EndsWith(s, suffix) ==
    Len(suffix) <= Len(s) /\ SubSeq(s, Len(s) - Len(suffix) + 1, Len(s)) = suffix

\* the host of u, in lowercase
HostOf(u) == [i \in 1..Len(Netloc(u)) |-> Fold(Netloc(u)[i])]

\* the host is the crafting-recipe domain or a name under it
IsCraftingDomain(host) ==
    \/ host = <<"m", "i", "n", "e", "c", "r", "a", "f", "t", "c", "r", "a", "f", "t", "i", "n", "g", ".", "i", "n", "f", "o">>
    \/ EndsWith(host, <<".">> \o <<"m", "i", "n", "e", "c", "r", "a", "f", "t", "c", "r", "a", "f", "t", "i", "n", "g", ".", "i", "n", "f", "o">>)

\* C16: a page is a structured-table site if and only if the host of its URL
\* is the crafting-recipe domain: exactly on those pages no paragraph fragment
\* is emitted and the intro pass adds its fragment, and on a page of any other
\* host every non-empty paragraph is emitted and there is no intro fragment.
C16_StructuredTableSiteByHost ==
    pc = "scraped" =>
        LET paragraphs == {i \in 1..Len(soup) :
                              soup[i].tag = "p" /\ GetText(soup, i, <<" ">>) # <<>>}
            emitted == {content_parts[k].element : k \in
                           {j \in 1..Len(content_parts) : content_parts[j].rule = "paragraph"}}
            intros == {k \in 1..Len(content_parts) : content_parts[k].rule = "intro"}
        IN  IF IsCraftingDomain(HostOf(url))
            THEN /\ emitted = {}
                 /\ intros # {} <=> _extract_intro_before_first_table(soup) # <<>>
            ELSE /\ emitted = paragraphs
                 /\ intros = {}

----------------------------------------------------------------------------
(* Specification SpecIntro: the intro pass of _scrape_page on the crafting site *)

MaxIntroBlocks == 3

\* what stands under the body: a plain div, a paragraph, a table, a table
\* inside a div, and a paragraph inside a main region, inside a parser-output
\* div and inside the div with the content id
IntroBlocks ==
    {<<El("div", 0, {}, TRUE)>>,
     <<El("p", 0, {}, TRUE)>>,
     <<El("table", 0, {}, FALSE), El("tr", 1, {}, FALSE), El("td", 2, {}, TRUE)>>,
     <<El("div", 0, {}, FALSE), El("table", 1, {}, FALSE), El("tr", 2, {}, FALSE),
       El("td", 3, {}, TRUE)>>,
     <<El("main", 0, {}, FALSE), El("p", 1, {}, TRUE)>>,
     <<El("div", 0, {"mw-parser-output"}, FALSE), El("p", 1, {}, TRUE)>>,
     <<Element("div", 0, {}, "content", <<>>, None, None, None), El("p", 1, {}, TRUE)>>}

InitIntro ==
    /\ pc = "fetched"
    /\ url = PageUrl(<<"c", "r", "a", "f", "t", "i", "n", "g", " ", "r", "e", "c", "i", "p", "e", "s">>)
    /\ soup \in {PageOf(bs) : bs \in SeqsUpTo(IntroBlocks, MaxIntroBlocks)}
    /\ content_parts = <<>>
    /\ NoBatch /\ NoClean /\ NoNormalize /\ NoEmbed

SpecIntro == InitIntro /\ [][NextScrape]_vars

\* the text the intro pass put ahead of the walk, empty when it put none
IntroText ==
    IF content_parts # <<>> /\ content_parts[1].rule = "intro"
    THEN content_parts[1].text ELSE <<>>

\* the first element of the first kind that exists: a main region, the
\* parser-output class, the content id, the body
MainByPriority(doc) ==
    LET mains == {j \in 1..Len(doc) : doc[j].tag = "main"}
        outputs == {j \in 1..Len(doc) : "mw-parser-output" \in doc[j].class}
        contents == {j \in 1..Len(doc) : doc[j].id = "content"}
        bodies == {j \in 1..Len(doc) : doc[j].tag = "body"}
    IN  IF mains # {} THEN Min(mains)
        ELSE IF outputs # {} THEN Min(outputs)
        ELSE IF contents # {} THEN Min(contents)
        ELSE IF bodies # {} THEN Min(bodies)
        ELSE 0

\* C17: the intro pass takes its container by priority, not by position: a
\* main region if there is one, else an element of the parser-output class,
\* else the element with the content id, else the body; the intro text is the
\* one of that container also when several of them are in the document.
C17_ContainerByPriority ==
    pc = "scraped" => IntroText = IntroIn(soup, MainByPriority(soup))

\* C18: when the chosen container holds a table, the intro text holds no text
\* of the first table of the container and no text that comes after it, also
\* when that table lies inside a div of the container.
C18_IntroStopsAtFirstTable ==
    pc = "scraped" =>
        LET main == SelectMain(soup)
            first_table == Find(soup, main, "table", "")
        IN  first_table # 0 =>
                \A j \in first_table..Len(soup) :
                    soup[j].string # <<>> => ~Contains(IntroText, soup[j].string)

----------------------------------------------------------------------------
(* Specification SpecHandoff: _save_to_json, then load_lore_json           *)

MaxSaved == 2

\* json.dumps of a string with ensure_ascii=False: quoted, with the quote, the
\* backslash and the control characters escaped, everything else as it is
JsonEscape(c) ==
    CASE c = "\"" -> <<"\\", "\"">>
      [] c = "\\" -> <<"\\", "\\">>
      [] c = "\n" -> <<"\\", "n">>
      [] c = "\t" -> <<"\\", "t">>
      [] OTHER -> <<c>>

JsonString(s) == <<"\"">> \o Concat([i \in 1..Len(s) |-> JsonEscape(s[i])]) \o <<"\"">>

\* the character an escape sequence "\c" stands for
JsonUnescape(c) ==
    CASE c = "n" -> "\n"
      [] c = "t" -> "\t"
      [] OTHER -> c

\* json.loads of the inside of a string literal, from position i on
RECURSIVE JsonDecodeFrom(_, _)
JsonDecodeFrom(s, i) ==
    LET escapes == {m \in i..(Len(s) - 1) : s[m] = "\\"}
    IN  IF escapes = {} THEN SubSeq(s, i, Len(s))
        ELSE SubSeq(s, i, Min(escapes) - 1) \o <<JsonUnescape(s[Min(escapes) + 1])>>
                 \o JsonDecodeFrom(s, Min(escapes) + 2)

JsonParseString(literal) == JsonDecodeFrom(SubSeq(literal, 2, Len(literal) - 1), 1)

\* a list whose contents are normalized before they are saved
SavedData_normalized(content_dict) ==
    [k \in 1..Len(content_dict) |->
        [title |-> Capitalize(content_dict[k].label),
         url |-> PageUrl(content_dict[k].label),
         content |-> normalize_text(content_dict[k].content)]]

\* the list _save_to_json builds from content_dict
SavedData(content_dict) ==
    [k \in 1..Len(content_dict) |->
        [title |-> Capitalize(content_dict[k].label),
         url |-> PageUrl(content_dict[k].label),
         content |-> content_dict[k].content]]

\* json.dump(data, f, indent=2, ensure_ascii=False): the array of objects
json_dump(data) ==
    [k \in 1..Len(data) |->
        [title |-> JsonString(data[k].title),
         url |-> JsonString(data[k].url),
         content |-> JsonString(data[k].content)]]

\* what _save_to_json writes to the file
_save_to_json(content_dict) == json_dump(SavedData(content_dict))

\* json.load(f)
load_lore_json(file) ==
    [k \in 1..Len(file) |->
        [title |-> JsonParseString(file[k].title),
         url |-> JsonParseString(file[k].url),
         content |-> JsonParseString(file[k].content)]]

\* page texts as scraped: empty, a section, a number with a zero-width space
\* in it, a quotation, a backslash and a tab
ScrapedTexts ==
    {<<>>,
     <<"H", "2", ":", " ", "T", "r", "a", "d", "i", "n", "g", "\n", "b", "a", "r">>,
     <<"1", "U+200B", "0", "0", "0", " ", "e", "m", "e", "r", "a", "l", "d", "s">>,
     <<"s", "a", "y", " ", "\"", "h", "i", "\"">>,
     <<"a", "\\", "b", "	", "c">>}

\* the results of _scrape_multiple_pages for at most MaxSaved pages
ScrapeResults ==
    UNION {{[k \in 1..Len(d) |-> [label |-> d[k].label, content |-> _clean_scraped_text(c[k])]] :
               c \in [1..Len(d) -> ScrapedTexts]} :
           d \in DictsUpTo(MaxSaved)}

InitHandoff ==
    /\ pc = "collected"
    /\ all_content \in ScrapeResults
    /\ lore_json = <<>>
    /\ lore_data = <<>>
    /\ pages = <<>> /\ web = <<>> /\ item = 0
    /\ chunks_of = <<>> /\ docs = <<>> /\ run = "idle" /\ hit_urls = <<>>
    /\ NoScrape /\ NoClean /\ NoNormalize

\* the main block of web_scraping.py after the scrape: _save_to_json(results, path)
SaveToJson ==
    /\ pc = "collected"
    /\ lore_json' = _save_to_json(all_content)
    /\ pc' = "saved"
    /\ UNCHANGED <<url, soup, content_parts, pages, web, item, all_content, raw, cleaned,
                   text, once, twice, lore_data, chunks_of, docs, run, hit_urls>>

\* the main block of embedder.py: lore = load_lore_json(DATA_PATH)
LoadLoreJson ==
    /\ pc = "saved"
    /\ lore_data' = load_lore_json(lore_json)
    /\ pc' = "read"
    /\ UNCHANGED <<url, soup, content_parts, pages, web, item, all_content, lore_json, raw,
                   cleaned, text, once, twice, chunks_of, docs, run, hit_urls>>

NextHandoff == SaveToJson \/ LoadLoreJson

SpecHandoff == InitHandoff /\ [][NextHandoff]_vars

\* C19 as claimed: every record read back from the hand-off file holds content
\* that equals its own normalization.
C19_HandoffContentNormalized ==
    pc = "read" =>
        \A k \in 1..Len(lore_data) :
            normalize_text(lore_data[k].content) = lore_data[k].content

\* C19 as the code has it: the records read back are one per scraped page, in
\* page order, each with the capitalized label as title, the page's URL and,
\* as content, the cleaned text the scrape returned for the page, character
\* for character.
C19_HandoffHoldsCleanedText ==
    pc = "read" =>
        /\ Len(lore_data) = Len(all_content)
        /\ \A k \in 1..Len(all_content) :
               /\ lore_data[k].title = Capitalize(all_content[k].label)
               /\ lore_data[k].url = PageUrl(all_content[k].label)
               /\ lore_data[k].content = all_content[k].content

\* two pages read back, the second with a zero-width space that normalize_text
\* would remove
C19_Witness ==
    /\ pc = "read"
    /\ Len(lore_data) = 2
    /\ lore_data[1].title = <<"T", "r", "a", "d", "i", "n", "g">>
    /\ lore_data[2].content = <<"1", "U+200B", "0", "0", "0", " ", "e", "m", "e", "r", "a", "l", "d", "s">>
    /\ normalize_text(lore_data[2].content) # lore_data[2].content

----------------------------------------------------------------------------
(* Specification SpecProvenance: chunks of one page, then _extract_url_from_hit *)

MaxHitChunks == 2

URL_KEYS == <<"url", "source_url", "page_url", "origin_url", "link">>

\* Python: md.get(key)
MdGet(md, key) == IF key \in DOMAIN md THEN md[key] ELSE None

\* the loop over the metadata keys from position k on: the first value that
\* is a non-blank string, or None
RECURSIVE FirstUrlValue(_, _)
FirstUrlValue(md, k) ==
    IF k > Len(URL_KEYS) THEN None
    ELSE IF Strip(MdGet(md, URL_KEYS[k])) # <<>> THEN MdGet(md, URL_KEYS[k])
    ELSE FirstUrlValue(md, k + 1)

\* the ways the pattern https?://(?:www\.)?minecraft\.wiki can begin
WIKI_LINK_STARTS ==
    {scheme \o www \o <<"m", "i", "n", "e", "c", "r", "a", "f", "t", ".", "w", "i", "k", "i">> :
        scheme \in {<<"h", "t", "t", "p", ":", "/", "/">>, <<"h", "t", "t", "p", "s", ":", "/", "/">>},
        www \in {<<>>, <<"w", "w", "w", ".">>}}

\* re.search(r"https?://(?:www\.)?minecraft\.wiki[^\s\)]*", text): the leftmost
\* match, which runs up to the next whitespace or ")"; "" when there is none
SearchWikiLink(t) ==
    LET starts == {m \in 1..Len(t) : \E p \in WIKI_LINK_STARTS : StartsWithAt(t, p, m)}
        start == Min(starts)
        stops == {j \in start..Len(t) : t[j] \in Whitespace \cup {")"}}
    IN  IF starts = {} THEN <<>>
        ELSE IF stops = {} THEN SubSeq(t, start, Len(t))
        ELSE SubSeq(t, start, Min(stops) - 1)

\* hit.metadata is a dict, an empty dict or None (here <<>>); hit.get_text()
\* is the text of the chunk
_extract_url_from_hit(hit) ==
    LET md == hit.metadata
        val == FirstUrlValue(md, 1)
        file_path == MdGet(md, "file_path")
    IN  IF val # None THEN val
        ELSE IF StartsWith(file_path, <<"h", "t", "t", "p">>) THEN file_path
        ELSE SearchWikiLink(hit.text)

\* chunk bodies: long enough to be kept, bare, wrapped in whitespace, with a
\* wiki link of another page inside, and one that is too short
HitChunks ==
    {Body(31),
     <<" ">> \o Body(31) \o <<"\n">>,
     <<"s", "e", "e", " ", "(", "h", "t", "t", "p", "s", ":", "/", "/", "m", "i", "n", "e", "c", "r", "a", "f", "t", ".", "w", "i", "k", "i", "/", "w", "/", "B", "r", "e", "w", "i", "n", "g", ")", " ", "f", "o", "r", " ", "p", "o", "t", "i", "o", "n", "s">>,
     Body(25)}

InitProvenance ==
    /\ pc = "loaded"
    /\ \E i \in 1..Len(WIKI_PAGES) : \E cs \in SeqsUpTo(HitChunks, MaxHitChunks) :
           /\ chunks_of = <<cs>>
           /\ lore_data = <<Entry(i, Concat(cs))>>
    /\ docs = <<>>
    /\ run = "running"
    /\ hit_urls = <<>>
    /\ NoScrape /\ NoBatch /\ NoClean /\ NoNormalize

\* every chunk comes back as a hit: with its metadata, with empty metadata
\* and without metadata
ExtractUrls ==
    /\ pc = "split"
    /\ hit_urls' = [d \in 1..Len(docs) |->
           [with_metadata |-> _extract_url_from_hit(docs[d]),
            empty_metadata |-> _extract_url_from_hit([docs[d] EXCEPT !.metadata = <<>>]),
            text_only |-> _extract_url_from_hit([metadata |-> None, text |-> docs[d].text])]]
    /\ pc' = "evaluated"
    /\ UNCHANGED <<url, soup, content_parts, pages, web, item, all_content, lore_json, raw,
                   cleaned, text, once, twice, lore_data, chunks_of, docs, run>>

NextProvenance == SplitAndPrepare \/ ExtractUrls

SpecProvenance == InitProvenance /\ [][NextProvenance]_vars

\* C20: for every chunk built from a page of WIKI_PAGES, _extract_url_from_hit
\* returns the URL of the page when the chunk's metadata is there, and the
\* same URL, recovered from the URL lines in the chunk text, when the
\* metadata is empty or absent.
C20_ProvenanceRecoverable ==
    pc = "evaluated" =>
        \A d \in 1..Len(hit_urls) :
            /\ hit_urls[d].with_metadata = lore_data[1].url
            /\ hit_urls[d].empty_metadata = lore_data[1].url
            /\ hit_urls[d].text_only = lore_data[1].url

----------------------------------------------------------------------------
(* Specification SpecCleanTitles: _clean_scraped_text on H2 titles that    *)
(* begin with a denylisted name                                            *)

MaxTitleLines == 4

\* headers whose titles begin with a denylisted name, a denylisted header,
\* another header, a body line that is a denylisted word, a body line
TitleLines ==
    {<<"H", "2", ":", " ", "H", "i", "s", "t", "o", "r", "y", " ", "o", "f", " ", "t", "r", "a", "d", "i", "n", "g">>,
     <<"H", "2", ":", " ", "S", "o", "u", "n", "d", "s", " ", "a", "n", "d", " ", "m", "u", "s", "i", "c">>,
     <<"H", "2", ":", " ", "H", "i", "s", "t", "o", "r", "y">>,
     <<"H", "2", ":", " ", "T", "r", "a", "d", "i", "n", "g">>,
     <<"H", "i", "s", "t", "o", "r", "y">>,
     <<"f", "o", "o">>}

RECURSIVE TitleLinesUpTo(_)
TitleLinesUpTo(n) ==
    IF n = 0 THEN {<<>>}
    ELSE LET shorter == TitleLinesUpTo(n - 1)
         IN  shorter \cup {ls \o <<l>> : ls \in shorter, l \in TitleLines}

InitCleanTitles ==
    /\ pc = "start"
    /\ raw \in {Join(<<"\n">>, ls) : ls \in TitleLinesUpTo(MaxTitleLines)}
    /\ cleaned = <<>>
    /\ NoScrape /\ NoBatch /\ NoNormalize /\ NoEmbed

SpecCleanTitles == InitCleanTitles /\ [][NextClean]_vars

\* the H2 section that begins at line i of ls: the header line and the lines
\* up to the next H2 header
SectionAt(ls, i) ==
    LET later == {j \in (i + 1)..Len(ls) : IsH2Line(ls[j])}
        last == IF later = {} THEN Len(ls) ELSE Min(later) - 1
    IN  Concat(SubSeq(ls, i, last))

\* C22: every H2 section whose title is neither "Contents" nor equal, ignoring
\* case, to a denylisted H2 name is in the cleaned text with its header and
\* its body unchanged, also when the title begins with a denylisted name and
\* when a denylisted word stands in its body.
C22_OtherH2SectionsUntouched ==
    pc = "done" =>
        LET ls == SplitKeepEnds(raw)
        IN  \A i \in 1..Len(ls) :
                (IsH2Line(ls[i]) /\ ~IsDeniedH2Line(ls[i]))
                    => Contains(cleaned, RStrip(SectionAt(ls, i)))

====
